---- MODULE Spec2Model ----
(***************************************************************************)
(* Model of wbc::WbcVelocity (src/src/WbcVelocity.cpp): configuration of   *)
(* the constraints, constraint lookup, and the per-cycle assembly of the   *)
(* priority-ordered equation systems.                                      *)
(*                                                                         *)
(* Numbers are integers: a reference of 0.5 is written 5, a weight of 1.0  *)
(* is written 1.  Sequences are 1-based, the indices stored in             *)
(* joint_index_map_ are 0-based as in the code.                            *)
(***************************************************************************)
EXTENDS Integers, Sequences, FiniteSets, TLC

VARIABLES
    configured_,              \* bool configured_
    no_robot_joints_,         \* uint no_robot_joints_
    joint_index_map_,         \* JointIndexMap: joint name -> column index
    heap,                     \* the ExtendedConstraint objects allocated by configure()
    constraint_vector_,       \* per priority, the list of constraint pointers (heap indices)
    constraint_map_,          \* ConstraintMap: constraint name -> constraint pointer
    jac_map_,                 \* JacobianMap: task frame name -> full robot Jacobian (its columns)
    task_frame_ids,           \* names of the required task frames
    n_prios_,                 \* uint n_prios_
    n_constraints_per_prio_,  \* row count per priority
    equations,                \* the caller's std::vector<LinearEquationSystem>, handed to every cycle
    now,                      \* base::Time::now(), in seconds
    call,                     \* the last call made and its arguments
    last_configure,           \* the arguments and the return value of the last configure()
    result,                   \* how the last call ended
    crashed                   \* the process was aborted

vars == << configured_, no_robot_joints_, joint_index_map_, heap, constraint_vector_,
           constraint_map_, jac_map_, task_frame_ids, n_prios_, n_constraints_per_prio_,
           equations, now, call, last_configure, result, crashed >>

-----------------------------------------------------------------------------
(* Bounds of the model *)

MaxSpecs == 2
MaxJoints == 2
MaxTime == 2

(* The output dimensionality of a Cartesian constraint (a twist). *)
CartDim == 6

-----------------------------------------------------------------------------
(* Generic helpers *)

EmptyMap == [k \in {} |-> 0]

Range(s) == { s[i] : i \in 1..Len(s) }

Zeros(n) == [i \in 1..n |-> 0]

RECURSIVE SumSeq(_)
SumSeq(s) == IF s = <<>> THEN 0 ELSE s[1] + SumSeq(Tail(s))

SeqsUpTo(S, n) == UNION { [1..k -> S] : k \in 0..n }

(* std::map<std::string, ...> iterates in the order of its keys. *)
NameRank ==
    [n \in {"a", "b", "c", "f1", "f2", "f3", "f4"} |->
        CASE n = "a" -> 1 [] n = "b" -> 2 [] n = "c" -> 3
          [] n = "f1" -> 4 [] n = "f2" -> 5 [] n = "f3" -> 6 [] n = "f4" -> 7]

RECURSIVE SortedKeys(_)
SortedKeys(S) ==
    IF S = {} THEN <<>>
    ELSE LET m == CHOOSE x \in S : \A y \in S : NameRank[x] <= NameRank[y]
         IN  <<m>> \o SortedKeys(S \ {m})

-----------------------------------------------------------------------------
(* ExtendedConstraint *)

NoVariables(cfg) == IF cfg.type = "cart" THEN CartDim ELSE Len(cfg.joint_names)

(* The constructor: reference zero, weights from the specification, the    *)
(* task matrix no_variables x (number of robot joints) and zero.           *)
NewConstraint(cfg, joint_names) ==
    [ config               |-> cfg,
      no_variables         |-> NoVariables(cfg),
      y_ref                |-> Zeros(NoVariables(cfg)),
      y_ref_root           |-> Zeros(NoVariables(cfg)),
      weights              |-> cfg.weights,
      activation           |-> 0,
      constraint_timed_out |-> 0,
      last_ref_input       |-> 0,
      time                 |-> 0,
      A                    |-> [r \in 1..NoVariables(cfg) |-> Zeros(Len(joint_names))] ]

-----------------------------------------------------------------------------
(* WbcVelocity::configure *)

(* joint_index_map_[joint_names[i]] = i, a later entry replacing an earlier one. *)
BuildJointIndexMap(joint_names) ==
    [n \in Range(joint_names) |->
        (CHOOSE i \in 1..Len(joint_names) :
            /\ joint_names[i] = n
            /\ \A k \in 1..Len(joint_names) : joint_names[k] = n => k <= i) - 1]

HasNegativePriority(config) == \E i \in 1..Len(config) : config[i].priority < 0

RECURSIVE MaxPrio(_)
MaxPrio(config) ==
    IF config = <<>> THEN 0
    ELSE LET m == MaxPrio(Tail(config))
         IN  IF config[1].priority > m THEN config[1].priority ELSE m

(* The loop that creates the constraints: the constraint is pushed into its *)
(* priority level before its name is looked up in the map.                  *)
RECURSIVE CreateConstraints(_, _, _, _)
CreateConstraints(config, joint_names, i, st) ==
    IF i > Len(config) THEN st
    ELSE LET cfg == config[i]
             ptr == Len(st.heap) + 1
             hp  == Append(st.heap, NewConstraint(cfg, joint_names))
             cv  == [st.cv EXCEPT ![cfg.priority + 1] = Append(@, ptr)]
         IN  IF cfg.name \in DOMAIN st.cmap
             THEN [st EXCEPT !.heap = hp, !.cv = cv, !.ok = FALSE]
             ELSE CreateConstraints(config, joint_names, i + 1,
                     [st EXCEPT !.heap = hp, !.cv = cv,
                                !.cmap = (cfg.name :> ptr) @@ st.cmap])

(* The erase loop without the decrement: the level after an erased one is skipped. *)
RECURSIVE EraseSkipsNext(_, _)
EraseSkipsNext(cv, prio) ==
    IF prio > Len(cv) THEN cv
    ELSE IF cv[prio] = <<>>
         THEN EraseSkipsNext(SubSeq(cv, 1, prio - 1) \o SubSeq(cv, prio + 1, Len(cv)), prio + 1)
         ELSE EraseSkipsNext(cv, prio + 1)

(* The loop that erases the empty priorities.  After an erase the code      *)
(* decrements the unsigned prio and the loop increment restores it, so the  *)
(* same index is looked at again.                                           *)
RECURSIVE EraseEmptyPriorities(_, _)
EraseEmptyPriorities(cv, prio) ==
    IF prio > Len(cv) THEN cv
    ELSE IF cv[prio] = <<>>
         THEN EraseEmptyPriorities(SubSeq(cv, 1, prio - 1) \o SubSeq(cv, prio + 1, Len(cv)), prio)
         ELSE EraseEmptyPriorities(cv, prio + 1)

RowsPerPrio(cv, hp) ==
    [p \in 1..Len(cv) |-> SumSeq([j \in 1..Len(cv[p]) |-> Len(hp[cv[p][j]].y_ref)])]

(* The names a constraint adds to the task frame map, in the order asked. *)
FramesOf(c) ==
    IF c.config.type = "cart"
    THEN << c.config.root, c.config.tip, c.config.ref_frame >>
    ELSE <<>>

RECURSIVE AddFrames(_, _)
AddFrames(names, ids) ==
    IF names = <<>> THEN ids
    ELSE AddFrames(Tail(names),
                   IF names[1] \in Range(ids) THEN ids ELSE Append(ids, names[1]))

RECURSIVE CollectTaskFrames(_, _, _, _)
CollectTaskFrames(keys, cmap, hp, ids) ==
    IF keys = <<>> THEN ids
    ELSE CollectTaskFrames(Tail(keys), cmap, hp, AddFrames(FramesOf(hp[cmap[keys[1]]]), ids))

ZeroJacobian(ncols) == Zeros(ncols)

(* The state configure() leaves behind, and its return value. *)
ConfigureOutcome(config, joint_names) ==
    LET jim     == BuildJointIndexMap(joint_names)
        cleared == [ ret |-> FALSE, configured |-> configured_, nrj |-> Len(joint_names),
                     jim |-> jim, heap |-> <<>>, cv |-> <<>>, cmap |-> EmptyMap,
                     jac |-> EmptyMap, ids |-> <<>>,
                     n_prios |-> n_prios_, n_cpp |-> n_constraints_per_prio_ ]
    IN  IF HasNegativePriority(config) THEN cleared
        ELSE LET made == CreateConstraints(config, joint_names, 1,
                             [ heap |-> <<>>, cv |-> [p \in 1..(MaxPrio(config) + 1) |-> <<>>],
                               cmap |-> EmptyMap, ok |-> TRUE ])
             IN  IF ~made.ok
                 THEN [cleared EXCEPT !.heap = made.heap, !.cv = made.cv, !.cmap = made.cmap]
                 ELSE LET cv  == EraseEmptyPriorities(made.cv, 1)
                          ids == CollectTaskFrames(SortedKeys(DOMAIN made.cmap),
                                                   made.cmap, made.heap, <<>>)
                      IN  [ ret |-> TRUE, configured |-> TRUE, nrj |-> Len(joint_names),
                            jim |-> jim, heap |-> made.heap, cv |-> cv, cmap |-> made.cmap,
                            jac |-> [n \in Range(ids) |-> ZeroJacobian(Cardinality(DOMAIN jim))],
                            ids |-> ids, n_prios |-> Len(cv),
                            n_cpp |-> RowsPerPrio(cv, made.heap) ]

Configure(config, joint_names) ==
    /\ ~crashed
    /\ \E o \in {ConfigureOutcome(config, joint_names)} :
           /\ configured_' = o.configured
           /\ no_robot_joints_' = o.nrj
           /\ joint_index_map_' = o.jim
           /\ heap' = o.heap
           /\ constraint_vector_' = o.cv
           /\ constraint_map_' = o.cmap
           /\ jac_map_' = o.jac
           /\ task_frame_ids' = o.ids
           /\ n_prios_' = o.n_prios
           /\ n_constraints_per_prio_' = o.n_cpp
           /\ result' = [status |-> IF o.ret THEN "true" ELSE "false", ub |-> FALSE]
           /\ last_configure' = [config |-> config, joint_names |-> joint_names, ret |-> o.ret]
    /\ call' = [op |-> "configure"]
    /\ UNCHANGED << equations, now, crashed >>

-----------------------------------------------------------------------------
(* WbcVelocity::constraint, and the writes a caller makes through the handle *)

LookupStatus(name) ==
    IF ~configured_ THEN "NotConfigured"
    ELSE IF name \notin DOMAIN constraint_map_ THEN "NotFound"
    ELSE "ok"

Lookup(name) ==
    /\ ~crashed
    /\ result' = [status |-> LookupStatus(name), ub |-> FALSE]
    /\ call' = [op |-> "constraint", name |-> name]
    /\ UNCHANGED << configured_, no_robot_joints_, joint_index_map_, heap, constraint_vector_,
                    constraint_map_, jac_map_, task_frame_ids, n_prios_,
                    n_constraints_per_prio_, equations, now, last_configure, crashed >>

(* constraint(name)->setReference(ref): the reference and the time of its update. *)
SetReference(name, ref) ==
    /\ ~crashed
    /\ LookupStatus(name) = "ok"
    /\ Len(ref) = heap[constraint_map_[name]].no_variables
    /\ heap' = [heap EXCEPT ![constraint_map_[name]] =
                   [@ EXCEPT !.y_ref = ref, !.last_ref_input = now]]
    /\ result' = [status |-> "ok", ub |-> FALSE]
    /\ call' = [op |-> "setReference", name |-> name]
    /\ UNCHANGED << configured_, no_robot_joints_, joint_index_map_, constraint_vector_,
                    constraint_map_, jac_map_, task_frame_ids, n_prios_,
                    n_constraints_per_prio_, equations, now, last_configure, crashed >>

(* constraint(name)->activation = act *)
SetActivation(name, act) ==
    /\ ~crashed
    /\ LookupStatus(name) = "ok"
    /\ heap[constraint_map_[name]].activation # act
    /\ heap' = [heap EXCEPT ![constraint_map_[name]] = [@ EXCEPT !.activation = act]]
    /\ result' = [status |-> "ok", ub |-> FALSE]
    /\ call' = [op |-> "setActivation", name |-> name]
    /\ UNCHANGED << configured_, no_robot_joints_, joint_index_map_, constraint_vector_,
                    constraint_map_, jac_map_, task_frame_ids, n_prios_,
                    n_constraints_per_prio_, equations, now, last_configure, crashed >>

(* Time passes between two calls. *)
Tick ==
    /\ ~crashed
    /\ now < MaxTime
    /\ now' = now + 1
    /\ UNCHANGED << configured_, no_robot_joints_, joint_index_map_, heap, constraint_vector_,
                    constraint_map_, jac_map_, task_frame_ids, n_prios_,
                    n_constraints_per_prio_, equations, call, last_configure, result, crashed >>

-----------------------------------------------------------------------------
(* KDL frames and twists.  A vector is a triple, a rotation a triple of     *)
(* rows, a frame [M, p], a twist a 6-vector: linear part 1..3, angular 4..6 *)

Identity3 == << <<1, 0, 0>>, <<0, 1, 0>>, <<0, 0, 1>> >>

MatVec(M, v) == [i \in 1..3 |-> M[i][1] * v[1] + M[i][2] * v[2] + M[i][3] * v[3]]

MatMul(M, N) ==
    [i \in 1..3 |-> [j \in 1..3 |-> M[i][1] * N[1][j] + M[i][2] * N[2][j] + M[i][3] * N[3][j]]]

Transpose(M) == [i \in 1..3 |-> [j \in 1..3 |-> M[j][i]]]

VecAdd(u, v) == [i \in 1..3 |-> u[i] + v[i]]

VecNeg(v) == [i \in 1..3 |-> 0 - v[i]]

Cross(u, v) ==
    << u[2] * v[3] - u[3] * v[2], u[3] * v[1] - u[1] * v[3], u[1] * v[2] - u[2] * v[1] >>

Vel(t) == << t[1], t[2], t[3] >>

Rot(t) == << t[4], t[5], t[6] >>

(* KDL::Frame::Inverse *)
FrameInverse(F) == [M |-> Transpose(F.M), p |-> VecNeg(MatVec(Transpose(F.M), F.p))]

(* KDL::Frame * KDL::Frame *)
FrameMul(F, G) == [M |-> MatMul(F.M, G.M), p |-> VecAdd(MatVec(F.M, G.p), F.p)]

(* KDL::Frame * KDL::Twist: the reference frame and the reference point change *)
FrameTimesTwist(F, t) ==
    LET rot == MatVec(F.M, Rot(t))
        vel == VecAdd(MatVec(F.M, Vel(t)), Cross(F.p, rot))
    IN  << vel[1], vel[2], vel[3], rot[1], rot[2], rot[3] >>

(* KDL::Rotation * KDL::Twist: only the reference frame changes *)
RotationTimesTwist(M, t) ==
    LET rot == MatVec(M, Rot(t))
        vel == MatVec(M, Vel(t))
    IN  << vel[1], vel[2], vel[3], rot[1], rot[2], rot[3] >>

-----------------------------------------------------------------------------
(* WbcVelocity::prepareEqSystem *)

(* The check with the last required task frame left out. *)
RequiredFramesButLast(ids, task_frames) ==
    \A i \in 1..(Len(ids) - 1) : ids[i] \in DOMAIN task_frames

(* The check that every required task frame is in the input. *)
RequiredFramesPresent(ids, task_frames) ==
    \A i \in 1..Len(ids) : ids[i] \in DOMAIN task_frames

(* KDL::Jacobian::setColumn *)
SetColumn(jac, idx, col) == [jac EXCEPT ![idx + 1] = col]

(* jac_map_[tf_name]: std::map::operator[] inserts a Jacobian without columns *)
(* for a name that is not in the map.                                         *)
JacEntry(jac, tf_name) ==
    IF tf_name \in DOMAIN jac THEN jac ELSE (tf_name :> <<>>) @@ jac

(* The columns of one task frame.  A column index past the Jacobian's       *)
(* columns is an out-of-bounds write: ub, and the write is lost.            *)
RECURSIVE SpliceJoints(_, _, _, _, _)
SpliceJoints(tf_name, tf, j, jim, st) ==
    IF j > Len(tf.joint_names) THEN st
    ELSE LET jt_name == tf.joint_names[j]
         IN  IF jt_name \notin DOMAIN jim
             THEN [st EXCEPT !.status = "InvalidJointName"]
             ELSE LET idx == jim[jt_name]
                      jac == JacEntry(st.jac, tf_name)
                  IN  IF idx + 1 > Len(jac[tf_name])
                      THEN SpliceJoints(tf_name, tf, j + 1, jim,
                               [st EXCEPT !.jac = jac, !.ub = TRUE])
                      ELSE SpliceJoints(tf_name, tf, j + 1, jim,
                               [st EXCEPT !.jac = [jac EXCEPT ![tf_name] =
                                                      SetColumn(@, idx, tf.jacobian[j])]])

RECURSIVE SpliceFrames(_, _, _, _)
SpliceFrames(keys, task_frames, jim, st) ==
    IF keys = <<>> \/ st.status # "ok" THEN st
    ELSE SpliceFrames(Tail(keys), task_frames, jim,
                      SpliceJoints(keys[1], task_frames[keys[1]], 1, jim, st))

(* LinearEquationSystem::resize *)
ResizedSystem(rows, cols) ==
    [W_row |-> Zeros(rows), A |-> [r \in 1..rows |-> Zeros(cols)], y_ref |-> Zeros(rows)]

EmptySystem == ResizedSystem(0, 0)

(* The timeout check with >= for >. *)
TimedOutAtTimeout(c, t) ==
    IF c.config.timeout > 0
    THEN IF t - c.last_ref_input >= c.config.timeout THEN 1 ELSE 0
    ELSE 0

(* The timeout check of one constraint at time t. *)
TimedOut(c, t) ==
    IF c.config.timeout > 0
    THEN IF t - c.last_ref_input > c.config.timeout THEN 1 ELSE 0
    ELSE 0

(* The conversion of the reference twist from ref_frame to the root frame. *)
TwistInRoot(pose_ref_frame_in_root, twist) ==
    FrameTimesTwist(pose_ref_frame_in_root, twist)

(* A Cartesian constraint.  The task matrix H * (J_tip - J_root) is shown by *)
(* the difference of the two Jacobians; H, the pseudo-inverse of the local   *)
(* 6x6 Jacobian, is not computed.  Dereferencing find() == end() for a frame *)
(* that is not in the input is ub, and the constraint is left as it is.      *)
CartUpdate(c, task_frames, jac) ==
    IF ~({c.config.root, c.config.tip, c.config.ref_frame} \subseteq DOMAIN task_frames)
    THEN [c |-> c, jac |-> jac, status |-> "ok", ub |-> TRUE]
    ELSE LET tf_root      == task_frames[c.config.root]
             tf_ref_frame == task_frames[c.config.ref_frame]
             jac1         == JacEntry(JacEntry(jac, c.config.root), c.config.tip)
             jac_root     == jac1[c.config.root]
             jac_tip      == jac1[c.config.tip]
             pose_ref_frame_in_root == FrameMul(FrameInverse(tf_root.pose), tf_ref_frame.pose)
         IN  [ c |-> [c EXCEPT
                        !.A = [r \in 1..c.no_variables |->
                                  [k \in 1..Len(jac_tip) |->
                                      jac_tip[k] - (IF k <= Len(jac_root) THEN jac_root[k] ELSE 0)]],
                        !.y_ref_root = TwistInRoot(pose_ref_frame_in_root, c.y_ref)],
               jac |-> jac1, status |-> "ok", ub |-> FALSE ]

(* The joint's position in the constraint used as its column. *)
SelectPosition(A, i, idx) == [A EXCEPT ![i][i] = 1]

(* The row of the i-th listed joint of a joint space constraint. *)
SelectJoint(A, i, idx) == [A EXCEPT ![i][idx + 1] = 1]

RECURSIVE JointUpdate(_, _, _)
JointUpdate(c, i, jim) ==
    IF i > Len(c.config.joint_names) THEN [c |-> c, status |-> "ok"]
    ELSE LET joint_name == c.config.joint_names[i]
         IN  IF joint_name \notin DOMAIN jim
             THEN [c |-> c, status |-> "InvalidConstraintConfig"]
             ELSE JointUpdate([c EXCEPT !.A = SelectJoint(@, i, jim[joint_name]),
                                        !.y_ref_root = c.y_ref], i + 1, jim)

(* Only the root-frame reference is cleared. *)
ClearRootOnly(c) ==
    IF c.activation = 0
    THEN [c EXCEPT !.y_ref_root = Zeros(Len(c.y_ref_root))]
    ELSE c

(* If the activation is zero the reference is set to zero as well. *)
ClearInactive(c) ==
    IF c.activation = 0
    THEN [c EXCEPT !.y_ref = Zeros(Len(c.y_ref)), !.y_ref_root = Zeros(Len(c.y_ref_root))]
    ELSE c

(* weights * activation * (!constraint_timed_out) *)
EffectiveWeights(c) ==
    [i \in 1..Len(c.weights) |->
        c.weights[i] * c.activation * (IF c.constraint_timed_out = 0 THEN 1 ELSE 0)]

(* W_row.segment(row_index, n) = w, and the same for the rows of A and y_ref *)
WriteSegment(vec, row_index, n, w) ==
    [i \in 1..Len(vec) |-> IF i > row_index /\ i <= row_index + n THEN w[i - row_index] ELSE vec[i]]

(* The block of one constraint in the system of its priority.  A block that *)
(* does not fit the system, or whose column count is not no_robot_joints_,  *)
(* is ub and the write is lost.                                             *)
InsertConstraint(eq, row_index, c, nrj) ==
    LET n    == c.no_variables
        fits == /\ row_index + n <= Len(eq.W_row)
                /\ \A r \in 1..Len(c.A) : Len(c.A[r]) = nrj
                /\ Len(c.weights) = n
    IN  IF ~fits THEN [eq |-> eq, ub |-> TRUE]
        ELSE [ eq |-> [ W_row |-> WriteSegment(eq.W_row, row_index, n, EffectiveWeights(c)),
                        A     |-> WriteSegment(eq.A, row_index, n, c.A),
                        y_ref |-> WriteSegment(eq.y_ref, row_index, n, c.y_ref_root) ],
               ub |-> FALSE ]

(* One constraint of a priority: st is [heap, jac, eq, row_index, status, ub]. *)
EvaluateConstraint(ptr, task_frames, jim, nrj, t, st) ==
    LET c0  == [st.heap[ptr] EXCEPT !.constraint_timed_out = TimedOut(st.heap[ptr], t)]
        upd == IF c0.config.type = "cart"
               THEN CartUpdate(c0, task_frames, st.jac)
               ELSE LET j == JointUpdate(c0, 1, jim)
                    IN  [c |-> j.c, jac |-> st.jac, status |-> j.status, ub |-> FALSE]
    IN  IF upd.status # "ok"
        THEN [st EXCEPT !.heap = [@ EXCEPT ![ptr] = upd.c], !.status = upd.status]
        ELSE LET c   == ClearInactive([upd.c EXCEPT !.time = t])
                 ins == InsertConstraint(st.eq, st.row_index, c, nrj)
             IN  [ heap      |-> [st.heap EXCEPT ![ptr] = c],
                   jac       |-> upd.jac,
                   eq        |-> ins.eq,
                   row_index |-> st.row_index + c.no_variables,
                   status    |-> "ok",
                   ub        |-> st.ub \/ upd.ub \/ ins.ub ]

RECURSIVE EvaluateLevel(_, _, _, _, _, _, _)
EvaluateLevel(ptrs, i, task_frames, jim, nrj, t, st) ==
    IF i > Len(ptrs) \/ st.status # "ok" THEN st
    ELSE EvaluateLevel(ptrs, i + 1, task_frames, jim, nrj, t,
                       EvaluateConstraint(ptrs[i], task_frames, jim, nrj, t, st))

(* All priorities: st is [heap, jac, eqs, status, ub].  A priority past the *)
(* end of constraint_vector_ is an out-of-bounds read: ub, no constraint is *)
(* evaluated for it.                                                        *)
RECURSIVE EvaluatePriorities(_, _, _)
EvaluatePriorities(prio, task_frames, st) ==
    IF prio > n_prios_ \/ st.status # "ok" THEN st
    ELSE LET known == prio <= Len(constraint_vector_)
             lv    == EvaluateLevel(IF known THEN constraint_vector_[prio] ELSE <<>>, 1,
                          task_frames, joint_index_map_, no_robot_joints_, now,
                          [ heap |-> st.heap, jac |-> st.jac,
                            eq |-> ResizedSystem(n_constraints_per_prio_[prio], no_robot_joints_),
                            row_index |-> 0, status |-> "ok", ub |-> st.ub \/ ~known ])
         IN  EvaluatePriorities(prio + 1, task_frames,
                 [ heap |-> lv.heap, jac |-> lv.jac,
                   eqs |-> [st.eqs EXCEPT ![prio] = lv.eq],
                   status |-> lv.status, ub |-> lv.ub ])

(* equations.resize(n_prios_) *)
ResizedEquations(eqs, n) ==
    [p \in 1..n |-> IF p <= Len(eqs) THEN eqs[p] ELSE EmptySystem]

(* What one call of prepareEqSystem does when every out-of-bounds access is *)
(* survived: the state it leaves, how it ends, and whether it was defined.  *)
AssembleOutcome(task_frames) ==
    LET same == [heap |-> heap, jac |-> jac_map_, eqs |-> equations, status |-> "ok", ub |-> FALSE]
    IN  IF ~configured_ THEN [same EXCEPT !.status = "NotConfigured"]
        ELSE IF ~RequiredFramesPresent(task_frame_ids, task_frames)
        THEN [same EXCEPT !.status = "IncompleteTaskFrameInput"]
        ELSE LET sp == SpliceFrames(SortedKeys(DOMAIN task_frames), task_frames,
                                    joint_index_map_,
                                    [jac |-> jac_map_, status |-> "ok", ub |-> FALSE])
             IN  IF sp.status # "ok"
                 THEN [same EXCEPT !.jac = sp.jac, !.status = sp.status, !.ub = sp.ub]
                 ELSE EvaluatePriorities(1, task_frames,
                          [ heap |-> heap, jac |-> sp.jac,
                            eqs |-> ResizedEquations(equations, n_prios_),
                            status |-> "ok", ub |-> sp.ub ])

(* An access out of bounds either aborts the process (Eigen's assertion) or *)
(* is survived.                                                             *)
Assemble(task_frames) ==
    /\ ~crashed
    /\ call' = [op |-> "assemble", task_frames |-> task_frames]
    /\ \E o \in {AssembleOutcome(task_frames)} :
           \/ /\ o.ub
              /\ crashed' = TRUE
              /\ result' = [status |-> "abort", ub |-> TRUE]
              /\ UNCHANGED << heap, jac_map_, equations >>
           \/ /\ heap' = o.heap
              /\ jac_map_' = o.jac
              /\ equations' = o.eqs
              /\ result' = [status |-> o.status, ub |-> o.ub]
              /\ UNCHANGED crashed
    /\ UNCHANGED << configured_, no_robot_joints_, joint_index_map_, constraint_vector_,
                    constraint_map_, task_frame_ids, n_prios_, n_constraints_per_prio_, now,
                    last_configure >>

(* WbcVelocity::jointNames: joint_names[it->second] = it->first over a      *)
(* vector of joint_index_map_.size() entries; "" is an entry never written, *)
(* ub an index past the end of the vector.                                  *)
JointNamesOf(jim) ==
    LET size == Cardinality(DOMAIN jim)
    IN  [ names |-> [i \in 1..size |->
                        IF \E n \in DOMAIN jim : jim[n] = i - 1
                        THEN CHOOSE n \in DOMAIN jim : jim[n] = i - 1
                        ELSE ""],
          ub    |-> \E n \in DOMAIN jim : jim[n] >= size ]

JointNames ==
    /\ ~crashed
    /\ call' = [op |-> "jointNames"]
    /\ \E o \in {JointNamesOf(joint_index_map_)} :
           \/ /\ o.ub
              /\ crashed' = TRUE
              /\ result' = [status |-> "abort", ub |-> TRUE, names |-> <<>>]
           \/ /\ result' = [status |-> "ok", ub |-> o.ub, names |-> o.names]
              /\ UNCHANGED crashed
    /\ UNCHANGED << configured_, no_robot_joints_, joint_index_map_, heap, constraint_vector_,
                    constraint_map_, jac_map_, task_frame_ids, n_prios_,
                    n_constraints_per_prio_, equations, now, last_configure >>

-----------------------------------------------------------------------------
(* The inputs *)

JointNameSet == {"j1", "j2"}

JointLists == SeqsUpTo(JointNameSet, MaxJoints)

IdentityPose == [M |-> Identity3, p |-> <<0, 0, 0>>]

JointSpec(name, priority, joints, timeout) ==
    [ name |-> name, priority |-> priority, type |-> "jnt", root |-> "", tip |-> "",
      ref_frame |-> "", joint_names |-> joints, weights |-> [i \in 1..Len(joints) |-> 2],
      timeout |-> timeout ]

CartSpec(name, priority, root, tip, ref_frame, timeout) ==
    [ name |-> name, priority |-> priority, type |-> "cart", root |-> root, tip |-> tip,
      ref_frame |-> ref_frame, joint_names |-> <<>>, weights |-> [i \in 1..CartDim |-> 2],
      timeout |-> timeout ]

TaskFrame(joints, columns, pose) ==
    [joint_names |-> joints, jacobian |-> columns, pose |-> pose]

Init ==
    /\ configured_ = FALSE
    /\ no_robot_joints_ = 0
    /\ joint_index_map_ = EmptyMap
    /\ heap = <<>>
    /\ constraint_vector_ = <<>>
    /\ constraint_map_ = EmptyMap
    /\ jac_map_ = EmptyMap
    /\ task_frame_ids = <<>>
    /\ n_prios_ \in 0..1          \* not initialised by the constructor
    /\ n_constraints_per_prio_ = <<>>
    /\ equations = <<>>
    /\ now = 0
    /\ call = [op |-> "construct"]
    /\ last_configure = [config |-> <<>>, joint_names |-> <<>>, ret |-> FALSE]
    /\ result = [status |-> "ok", ub |-> FALSE]
    /\ crashed = FALSE

-----------------------------------------------------------------------------
(* Configuration: any list of specifications, two joint lists *)

ConstraintNames == {"a", "b", "c"}

CfgCatalog ==
    { JointSpec("a", 0, <<"j2">>, 0),
      CartSpec("b", 2, "f1", "f2", "f1", 0),
      JointSpec("c", 0, <<"j1", "j2">>, 0) }

NegativeSpec == JointSpec("c", -1, <<"j1", "j2">>, 0)

CfgConfigs ==
    SeqsUpTo(CfgCatalog, MaxSpecs)
        \cup { <<NegativeSpec>>, <<JointSpec("a", 0, <<"j2">>, 0), NegativeSpec>> }

CfgLookupNames == {"a", "b"}

CfgJointLists == { <<"j1", "j2">> }

CfgTaskFrames ==
    { EmptyMap,
      [f \in {"f1", "f2"} |-> TaskFrame(<<"j2">>, <<1>>, IdentityPose)] }

NextCfg ==
    \/ \E config \in CfgConfigs, joint_names \in CfgJointLists : Configure(config, joint_names)
    \/ \E name \in CfgLookupNames : Lookup(name)
    \/ \E task_frames \in CfgTaskFrames : Assemble(task_frames)

SpecCfg == Init /\ [][NextCfg]_vars

-----------------------------------------------------------------------------
(* Joint names: any joint list, a few configurations *)

JntConfigs ==
    { <<>>, << JointSpec("a", 0, <<"j2">>, 0) >>,
      << JointSpec("a", 0, <<"j2">>, 0), JointSpec("a", 0, <<"j2">>, 0) >> }

NextJnt ==
    \/ \E config \in JntConfigs, joint_names \in JointLists : Configure(config, joint_names)
    \/ \E name \in {"a"} : Lookup(name)
    \/ \E task_frames \in {EmptyMap} : Assemble(task_frames)
    \/ JointNames

SpecJnt == Init /\ [][NextJnt]_vars

-----------------------------------------------------------------------------
(* Assembly: joint and Cartesian constraints of one priority *)

AsmConfigs ==
    { << JointSpec("a", 0, <<"j2">>, 0), JointSpec("c", 0, <<"j1", "j2">>, 0) >>,
      << CartSpec("b", 0, "f1", "f2", "f3", 0), JointSpec("a", 0, <<"j2">>, 0) >>,
      << JointSpec("a", 0, <<"j2">>, 0), JointSpec("a", 0, <<"j2">>, 0) >> }

AsmJointLists == { <<"j1", "j2">>, <<"j2">> }

OptionalFrame(name, frames) == {EmptyMap} \cup { (name :> tf) : tf \in frames }

(* f4 is a frame no constraint refers to. *)
AsmTaskFrames ==
    { f1 @@ f2 @@ f3 @@ f4 :
        f1 \in { "f1" :> TaskFrame(<<"j1">>, <<3>>, IdentityPose) },
        f2 \in OptionalFrame("f2", { TaskFrame(<<"j1", "j2">>, <<4, 5>>, IdentityPose),
                                     TaskFrame(<<"j2">>, <<6>>, IdentityPose) }),
        f3 \in OptionalFrame("f3", { TaskFrame(<<>>, <<>>, IdentityPose) }),
        f4 \in OptionalFrame("f4", { TaskFrame(<<"j1">>, <<7>>, IdentityPose) }) }

(* A reference for a constraint of n output variables. *)
References(n) == { [i \in 1..n |-> IF i = 1 \/ i = n THEN 5 ELSE 0] }

Activations == {0, 1}

NextAsm ==
    \/ \E config \in AsmConfigs, joint_names \in AsmJointLists : Configure(config, joint_names)
    \/ \E name \in ConstraintNames, n \in {1, 2, CartDim} :
          \E ref \in References(n) : SetReference(name, ref)
    \/ \E name \in ConstraintNames, act \in Activations : SetActivation(name, act)
    \/ \E task_frames \in AsmTaskFrames : Assemble(task_frames)

SpecAsm == Init /\ [][NextAsm]_vars

-----------------------------------------------------------------------------
(* Timeouts: time passes between the calls *)

TimeConfigs ==
    { << JointSpec("a", 0, <<"j2">>, 1), JointSpec("c", 0, <<"j1", "j2">>, 0) >>,
      << CartSpec("b", 0, "f1", "f2", "f3", 1), JointSpec("a", 0, <<"j2">>, 0) >>,
      << JointSpec("a", 0, <<"j2">>, 1), JointSpec("a", 0, <<"j2">>, 1) >> }

TimeJointLists == { <<"j1", "j2">> }

TimeTaskFrames ==
    { EmptyMap,
      [f \in {"f1", "f2", "f3"} |-> TaskFrame(<<"j1", "j2">>, <<4, 5>>, IdentityPose)] }

NextTime ==
    \/ \E config \in TimeConfigs, joint_names \in TimeJointLists : Configure(config, joint_names)
    \/ \E name \in ConstraintNames, n \in {1, 2, CartDim} :
          \E ref \in References(n) : SetReference(name, ref)
    \/ \E name \in ConstraintNames, act \in Activations : SetActivation(name, act)
    \/ \E task_frames \in TimeTaskFrames : Assemble(task_frames)
    \/ Tick

SpecTime == Init /\ [][NextTime]_vars

-----------------------------------------------------------------------------
(* Cartesian references: root and reference frame in different poses *)

RotZ90 == << <<0, -1, 0>>, <<1, 0, 0>>, <<0, 0, 1>> >>

Poses == { [M |-> M, p |-> p] : M \in {Identity3, RotZ90}, p \in { <<0, 0, 0>>, <<1, 2, 0>> } }

Twists == { <<5, 0, 0, 0, 0, 0>>, <<0, 0, 0, 0, 0, 5>>, <<0, 5, 0, 5, 0, 0>> }

CartConfigs ==
    { << CartSpec("b", 0, "f1", "f2", "f3", 0) >>,
      << CartSpec("b", 0, "f1", "f2", "f3", 0), CartSpec("b", 0, "f1", "f2", "f3", 0) >> }

CartTaskFrames ==
    { [f \in {"f1", "f2", "f3"} |->
          TaskFrame(<<"j1">>, <<3>>,
                    IF f = "f1" THEN root ELSE IF f = "f3" THEN ref ELSE IdentityPose)] :
        root \in Poses, ref \in Poses }

NextCart ==
    \/ \E config \in CartConfigs, joint_names \in {<<"j1">>} : Configure(config, joint_names)
    \/ \E name \in {"b"}, ref \in Twists : SetReference(name, ref)
    \/ \E name \in {"b"}, act \in Activations : SetActivation(name, act)
    \/ \E task_frames \in CartTaskFrames : Assemble(task_frames)

SpecCart == Init /\ [][NextCart]_vars

-----------------------------------------------------------------------------
(* Properties of configure() *)

LastConfigureFailed == call.op # "construct" /\ ~last_configure.ret

(* C1: after a configure() that returned failure the solver is not marked   *)
(* configured, and a following lookup or assemble fails with NotConfigured, *)
(* also when an earlier configure() had succeeded.                          *)
C1_FailedConfigureLeavesUnconfigured ==
    LastConfigureFailed =>
        /\ ~configured_
        /\ call.op \in {"constraint", "assemble"} => result.status = "NotConfigured"

(* The priorities of a configuration and the members of a priority, from the *)
(* arguments of the call.                                                    *)
PrioritiesOf(config) == { config[i].priority : i \in 1..Len(config) }

KthPriority(config, k) ==
    CHOOSE p \in PrioritiesOf(config) :
        Cardinality({ q \in PrioritiesOf(config) : q < p }) = k - 1

RECURSIVE MembersOf(_, _, _)
MembersOf(config, p, i) ==
    IF i > Len(config) THEN <<>>
    ELSE (IF config[i].priority = p THEN <<i>> ELSE <<>>) \o MembersOf(config, p, i + 1)

(* C2: after a successful configure() there are as many priority levels as   *)
(* distinct input priorities, none is empty, and level k holds exactly the   *)
(* constraints of the k-th smallest input priority in configuration order.   *)
C2_LevelsContiguous ==
    last_configure.ret =>
        LET config == last_configure.config
            P      == Cardinality(PrioritiesOf(config))
        IN  /\ Len(constraint_vector_) = P
            /\ n_prios_ = P
            /\ Len(heap) = Len(config)
            /\ \A i \in 1..Len(config) : heap[i].config = config[i]
            /\ \A k \in 1..P :
                  /\ constraint_vector_[k] # <<>>
                  /\ constraint_vector_[k] = MembersOf(config, KthPriority(config, k), 1)

(* A sparse configuration given in descending priority: levels 2 then 0. *)
C2_Witness ==
    /\ last_configure.ret
    /\ Len(last_configure.config) = 2
    /\ last_configure.config[1].priority = 2
    /\ last_configure.config[2].priority = 0
    /\ constraint_vector_ = << <<2>>, <<1>> >>

(* C3: after a successful configure(specifications, joint_names) the joint  *)
(* index map has as many entries as robot joints were recorded, and         *)
(* listJointNames() returns exactly joint_names.                            *)
C3_JointNamesRoundTrip ==
    last_configure.ret =>
        /\ Cardinality(DOMAIN joint_index_map_) = no_robot_joints_
        /\ call.op = "jointNames" =>
              /\ result.status = "ok"
              /\ ~result.ub
              /\ result.names = last_configure.joint_names

-----------------------------------------------------------------------------
(* Properties of assemble().  A cycle is a call of assemble() on a solver   *)
(* whose last configure() succeeded.                                        *)

ValidConfiguration == last_configure.ret

CycleCalled == ValidConfiguration /\ call.op = "assemble"

CycleDone == CycleCalled /\ result.status = "ok"

(* The frame names the Cartesian specifications of the configuration use. *)
RequiredFrames(config) ==
    UNION { {config[i].root, config[i].tip, config[i].ref_frame} :
              i \in { k \in 1..Len(config) : config[k].type = "cart" } }

(* The first row (counted from 0) of the pos-th member of level k. *)
RowOffset(k, pos) ==
    SumSeq([j \in 1..(pos - 1) |-> heap[constraint_vector_[k][j]].no_variables])

LevelRows(k) ==
    SumSeq([j \in 1..Len(constraint_vector_[k]) |-> heap[constraint_vector_[k][j]].no_variables])

Members == { <<k, pos>> \in (1..Len(constraint_vector_)) \X (1..CartDim) :
                pos <= Len(constraint_vector_[k]) }

(* C4: on a configured solver assemble() fails with IncompleteTaskFrameInput *)
(* whenever the input lacks a frame that a Cartesian constraint uses as      *)
(* root, tip or reference frame, and then neither the Jacobian registry nor  *)
(* any constraint has changed.                                               *)
C4_IncompleteInputRejected ==
    [][ (CycleCalled' /\ ~(RequiredFrames(last_configure.config)' \subseteq
                              DOMAIN call.task_frames'))
        => /\ result'.status = "IncompleteTaskFrameInput"
           /\ jac_map_' = jac_map_
           /\ heap' = heap ]_vars

(* Root and tip are given, the reference frame is missing. *)
C4_Witness ==
    /\ CycleCalled
    /\ {"f1", "f2"} \subseteq DOMAIN call.task_frames
    /\ "f3" \in RequiredFrames(last_configure.config)
    /\ "f3" \notin DOMAIN call.task_frames
    /\ \E ptr \in 1..Len(heap) : heap[ptr].y_ref # Zeros(Len(heap[ptr].y_ref))
    /\ result.status = "IncompleteTaskFrameInput"

IsZero(vec) == \A i \in 1..Len(vec) : vec[i] = 0

(* C5: in a cycle in which a constraint's activation is 0 its raw and        *)
(* root-frame references are set to zero and its rows of the level's         *)
(* reference vector are zero; setting the activation leaves the reference    *)
(* alone and a cycle keeps a zero reference zero, so a constraint activated  *)
(* again without a new reference still has a zero reference.                 *)
C5_InactiveReferenceCleared ==
    [][ /\ (CycleDone' =>
              \A m \in Members' :
                 LET ptr == constraint_vector_'[m[1]][m[2]]
                     off == RowOffset(m[1], m[2])'
                 IN  (heap[ptr].activation = 0 \/ IsZero(heap[ptr].y_ref))
                     => /\ IsZero(heap'[ptr].y_ref)
                        /\ IsZero(heap'[ptr].y_ref_root)
                        /\ \A i \in 1..heap'[ptr].no_variables :
                              equations'[m[1]].y_ref[off + i] = 0)
        /\ (call'.op = "setActivation" =>
              \A ptr \in 1..Len(heap) : heap'[ptr].y_ref = heap[ptr].y_ref) ]_vars

(* A reference was written after time 0, the constraint is active, and the  *)
(* cycle has a zero reference for it: it was cleared while inactive.        *)
C5_Witness ==
    /\ CycleDone
    /\ \E ptr \in 1..Len(heap) :
          /\ heap[ptr].last_ref_input > 0
          /\ heap[ptr].activation = 1
          /\ heap[ptr].config.type = "cart"
          /\ IsZero(heap[ptr].y_ref)

(* C6: after a cycle a constraint is marked timed out exactly when its       *)
(* timeout is positive and the time from its last reference update to the    *)
(* cycle is greater than the timeout; its weight rows are weight times       *)
(* activation when it is not timed out and zero when it is.                  *)
C6_TimeoutSoftDeactivation ==
    CycleDone =>
        \A m \in Members :
           LET c   == heap[constraint_vector_[m[1]][m[2]]]
               off == RowOffset(m[1], m[2])
               out == c.config.timeout > 0 /\ c.time - c.last_ref_input > c.config.timeout
           IN  /\ c.constraint_timed_out = (IF out THEN 1 ELSE 0)
               /\ c.config.name \in DOMAIN constraint_map_
               /\ \A i \in 1..c.no_variables :
                     equations[m[1]].W_row[off + i] =
                        (IF out THEN 0 ELSE c.weights[i] * c.activation)

(* An active constraint with nonzero weight is timed out, its weight is 0. *)
C6_Witness ==
    /\ CycleDone
    /\ \E m \in Members :
          LET c == heap[constraint_vector_[m[1]][m[2]]]
          IN  /\ c.constraint_timed_out = 1
              /\ c.activation = 1
              /\ c.weights[1] # 0
              /\ equations[m[1]].W_row[RowOffset(m[1], m[2]) + 1] = 0

(* C7: after a cycle every level's system has as many rows as the sum of its *)
(* members' output dimensionalities; the block of a Joint constraint starts  *)
(* at the sum of the dimensionalities of the members before it, the row of   *)
(* its i-th joint has 1 in the column the Joint Index Map gives and 0        *)
(* elsewhere, and its reference rows are the raw reference.                  *)
C7_JointBlocks ==
    CycleDone =>
        /\ Len(equations) = Len(constraint_vector_)
        /\ \A k \in 1..Len(constraint_vector_) :
              /\ Len(equations[k].A) = LevelRows(k)
              /\ Len(equations[k].W_row) = LevelRows(k)
              /\ Len(equations[k].y_ref) = LevelRows(k)
        /\ \A m \in Members :
              LET c   == heap[constraint_vector_[m[1]][m[2]]]
                  off == RowOffset(m[1], m[2])
              IN  c.config.type = "jnt" =>
                     \A i \in 1..Len(c.config.joint_names) :
                        /\ equations[m[1]].A[off + i] =
                              [col \in 1..no_robot_joints_ |->
                                  IF col = joint_index_map_[c.config.joint_names[i]] + 1
                                  THEN 1 ELSE 0]
                        /\ equations[m[1]].y_ref[off + i] = c.y_ref[i]

(* Joints [j1, j2] and a constraint on [j2] behind a Cartesian constraint:  *)
(* row 7 is [0, 1] with reference 5 and weight 2.                           *)
C7_Witness ==
    /\ CycleDone
    /\ last_configure.joint_names = <<"j1", "j2">>
    /\ Len(heap) = 2
    /\ heap[1].config.type = "cart"
    /\ heap[2].config.joint_names = <<"j2">>
    /\ heap[2].activation = 1
    /\ equations[1].A[7] = <<0, 1>>
    /\ equations[1].y_ref[7] = 5
    /\ equations[1].W_row[7] = 2

(* C8: after a cycle every registry entry holds, for each joint named in    *)
(* the frame's input of the cycle, the supplied column at the joint's       *)
(* index, and a zero column for every joint the input does not name.        *)
C8_RegistryMatchesCycleInput ==
    (CycleDone /\ ~result.ub) =>
        \A f \in Range(task_frame_ids) :
           LET tf == call.task_frames[f]
           IN  \A n \in DOMAIN joint_index_map_ :
                  IF n \in Range(tf.joint_names)
                  THEN \E j \in 1..Len(tf.joint_names) :
                          /\ tf.joint_names[j] = n
                          /\ jac_map_[f][joint_index_map_[n] + 1] = tf.jacobian[j]
                  ELSE jac_map_[f][joint_index_map_[n] + 1] = 0

(* C10: between two configure() calls the registry's keys are the frame     *)
(* names the Cartesian constraints use and every entry has one column per   *)
(* robot joint, whatever assemble() is given.                               *)
C10_RegistryKeysFixed ==
    ValidConfiguration =>
        /\ DOMAIN jac_map_ = RequiredFrames(last_configure.config)
        /\ \A f \in DOMAIN jac_map_ : Len(jac_map_[f]) = no_robot_joints_

(* C9: a Cartesian constraint's root-frame reference is its raw reference    *)
(* turned by the orientation of root^-1 * reference_frame alone: it is the   *)
(* raw reference when root and reference frame have the same orientation,    *)
(* and its linear part is zero when the raw linear part is zero.             *)
C9_RotationOnlyReference ==
    CycleDone =>
        \A ptr \in 1..Len(heap) :
           LET c    == heap[ptr]
               root == call.task_frames[c.config.root].pose
               ref  == call.task_frames[c.config.ref_frame].pose
           IN  (c.config.type = "cart" /\ c.activation # 0) =>
                  /\ c.y_ref_root = RotationTimesTwist(MatMul(Transpose(root.M), ref.M), c.y_ref)
                  /\ root.M = ref.M => c.y_ref_root = c.y_ref
                  /\ IsZero(Vel(c.y_ref)) => IsZero(Vel(c.y_ref_root))

====
